---- MODULE Spec2Model ----
(***************************************************************************)
(* Annealed Langevin sampling drivers (generate.py), the noise schedule    *)
(* built in generate.py's main block, save_as_grid's layout and the two    *)
(* denoising score matching losses (losses/losses.py) of NCSN-TF2.0.       *)
(*                                                                         *)
(* Real numbers are exact rationals <<num, den>> with den > 0.  A tensor   *)
(* of images is a sequence of image records; an image carries the index    *)
(* it had in the initial noise tensor (id), one tracked pixel value (v)    *)
(* and the list of Langevin updates applied to it so far (trace).          *)
(***************************************************************************)
EXTENDS Integers, Sequences, FiniteSets, TLC

VARIABLES
    fn,                 \* which driver runs
    sigmas, T, n_images, batch_size,   \* the driver's arguments
    batch_size_arg,     \* batch_size as passed, before line 77 rebinds it
    pc,                 \* position in the driver
    x,                  \* sample_many*: the batched dataset still to iterate
    batch,              \* the tensor being refined (x in sample_and_save)
    i_batch, i, t,      \* loop counters
    alpha_i, idx_sigmas,
    x_processed, n_processed_images,
    idx_image, k_save, files,
    snaps,              \* grids written by sample_and_save
    calls,              \* log of sample_one_step calls
    sched,              \* noise schedule construction
    loss,               \* loss evaluation
    grid                \* save_as_grid

samplerVars == <<fn, sigmas, T, n_images, batch_size, batch_size_arg, pc, x, batch, i_batch, i, t,
                 alpha_i, idx_sigmas, x_processed, n_processed_images,
                 idx_image, k_save, files, snaps, calls>>
vars == <<samplerVars, batch_size_arg, sched, loss, grid>>

(* ------------------------------ bounds -------------------------------- *)
MaxL == 2
MaxT == 21
MaxTMany == 2
MaxImages == 3
MaxDiagImages == 1
MaxBatch == 3
MaxExp == 3
MaxNumL == 3
MaxLossNumL == 2
MaxGridImages == 6
MaxSide == 2
MaxSpacing == 2
\* loss inputs: tensor shapes (batch, H, W, C), element values, sigmas
LossShapes == {<<1, 1, 1, 1>>, <<2, 1, 1, 1>>, <<1, 2, 1, 1>>, <<1, 1, 2, 1>>,
               <<1, 1, 1, 2>>, <<1, 1, 2, 2>>, <<2, 1, 2, 1>>}
ScoreValues == {0, 1}
ImageValues == {0, 1}
LossSigmas == {1, 2}
\* sigma values in an arbitrary unit; alpha only depends on ratios
SigmaValues == 1..2
\* quantised pixel values: [0, 1] is PixelLo..PixelHi, the rest lies outside
PixelRange == -1..2
\* quantised value of alpha_i * score + sqrt(2 alpha_i) * z for one image
Deltas == {-1, 0, 1}

(* --------------------------- exact rationals --------------------------- *)
RMul(a, b) == <<a[1] * b[1], a[2] * b[2]>>
RDiv(a, b) == IF b[1] > 0 THEN <<a[1] * b[2], a[2] * b[1]>>
                          ELSE <<-(a[1] * b[2]), -(a[2] * b[1])>>
RAdd(a, b) == <<a[1] * b[2] + b[1] * a[2], a[2] * b[2]>>
RSub(a, b) == <<a[1] * b[2] - b[1] * a[2], a[2] * b[2]>>
RSquare(a) == RMul(a, a)
REq(a, b) == a[1] * b[2] = b[1] * a[2]
RLt(a, b) == a[1] * b[2] < b[1] * a[2]
RInt(n) == <<n, 1>>

(* ------------------------------ sampler -------------------------------- *)
\* eps = 2 * 1e-5, the default of all three drivers
EpsNum == 2
EpsDen == 100000
eps == <<EpsNum, EpsDen>>

PixelLo == 0
PixelHi == 1
SnapshotEvery == 10

Drivers == {"sample_and_save", "sample_many", "sample_many_and_save"}

Min(a, b) == IF a < b THEN a ELSE b
Last(s) == s[Len(s)]

\* tf.random.uniform(shape=image_size): n images with values in [0, 1),
\* which the unit grid quantises to PixelLo
Uniform(n) == [k \in 1..n |-> [id |-> k - 1, v |-> PixelLo, trace |-> <<>>]]

\* variant: batch(b, drop_remainder=True)
RECURSIVE MutBatchedDropRemainder(_, _)
MutBatchedDropRemainder(s, b) ==
    IF Len(s) < b THEN <<>>
    ELSE <<SubSeq(s, 1, b)>> \o MutBatchedDropRemainder(SubSeq(s, b + 1, Len(s)), b)
\* tf.data.Dataset.from_tensor_slices(x).batch(b): consecutive slices of b
\* elements, the last one shorter when b does not divide the length
RECURSIVE Batched(_, _)
Batched(s, b) ==
    IF Len(s) = 0 THEN <<>>
    ELSE IF Len(s) <= b THEN <<s>>
    ELSE <<SubSeq(s, 1, b)>> \o Batched(SubSeq(s, b + 1, Len(s)), b)

\* tf.ones(n, dtype=tf.int32) * i
Ones(n, v) == [k \in 1..n |-> v]

\* variant: dividing by sigmas[0] instead of sigmas[-1]
MutAlphaFirst(s, lvl) == RMul(eps, RSquare(RDiv(RInt(s[lvl + 1]), RInt(s[1]))))
\* alpha_i = eps * (sigma_i / sigmas[-1]) ** 2
Alpha(s, lvl) == RMul(eps, RSquare(RDiv(RInt(s[lvl + 1]), RInt(Last(s)))))

\* the displacement vectors the score model and the noise draw can produce
\* for tensor xs; pixel values only reach an observer in sample_and_save
\* (the grids and the returned tensor), so only there are they drawn
RECURSIVE VecSet(_, _)
VecSet(n, S) == IF n = 0 THEN {<<>>}
                ELSE {Append(p, d) : p \in VecSet(n - 1, S), d \in S}
Draws(f, xs) ==
    IF f = "sample_and_save"
    THEN {d \in VecSet(Len(xs), Deltas) :
             \A k \in 1..Len(xs) : xs[k].v + d[k] \in PixelRange}
    ELSE {Ones(Len(xs), 0)}

\* sample_one_step: x + alpha_i * score + noise, image by image
SampleOneStep(xs, idx, a, d) ==
    [k \in 1..Len(xs) |->
        [id |-> xs[k].id,
         v |-> xs[k].v + d[k],
         trace |-> Append(xs[k].trace, [level |-> idx[k], alpha |-> a])]]

\* clamped(x) = tf.clip_by_value(x, 0, 1.0)
clamped(xs) ==
    [k \in 1..Len(xs) |->
        [xs[k] EXCEPT !.v = IF @ < PixelLo THEN PixelLo
                            ELSE IF @ > PixelHi THEN PixelHi ELSE @]]

InitSampler ==
    /\ fn \in Drivers
    /\ \E L \in 1..MaxL : sigmas \in [1..L -> SigmaValues]
    /\ T \in 1..(IF fn = "sample_and_save" THEN MaxT ELSE MaxTMany)
    /\ n_images \in 1..(IF fn = "sample_and_save" THEN MaxDiagImages ELSE MaxImages)
    \* sample_and_save has no batch_size argument
    /\ batch_size \in (IF fn = "sample_and_save" THEN {0} ELSE 1..MaxBatch)
    /\ batch_size_arg = batch_size
    /\ pc = "start"
    /\ x = <<>>
    /\ batch = <<>>
    /\ i_batch = -1
    /\ i = 0
    /\ t = 0
    /\ alpha_i = eps
    /\ idx_sigmas = <<>>
    /\ x_processed = <<>>
    /\ n_processed_images = 0
    /\ idx_image = 0
    /\ k_save = 0
    /\ files = <<>>
    /\ snaps = <<>>
    /\ calls = <<>>

\* variant: tf.ones(batch_size) in sample_many*
MutIdxLenBatchSize(f, n, b, xs) == IF f = "sample_and_save" THEN n ELSE b
\* length of the noise-level index vector: tf.ones(n_images) in
\* sample_and_save, tf.ones(batch.get_shape()[0]) in sample_many*
IdxLen(f, n, b, xs) == IF f = "sample_and_save" THEN n ELSE Len(xs)

\* x = x * 255; x = x + 0.5; x = tf.clip_by_value(x, 0, 255)
PreprocessImageToSave(v) ==
    LET y == RAdd(RMul(RInt(v), RInt(255)), <<1, 2>>)
    IN  IF RLt(y, RInt(0)) THEN RInt(0)
        ELSE IF RLt(RInt(255), y) THEN RInt(255) ELSE y

\* function entry up to the first loop header
Begin ==
    /\ pc = "start"
    /\ IF fn = "sample_and_save"
       THEN /\ batch' = Uniform(n_images)
            /\ pc' = "level"
            /\ UNCHANGED <<x, batch_size>>
       ELSE /\ batch_size' = Min(batch_size, n_images)
            /\ x' = Batched(Uniform(n_images), batch_size')
            /\ pc' = "batch"
            /\ UNCHANGED batch
    /\ UNCHANGED <<fn, sigmas, T, n_images, i_batch, i, t, alpha_i, idx_sigmas,
                   x_processed, n_processed_images, idx_image, k_save, files,
                   snaps, calls, batch_size_arg, sched, loss, grid>>

\* for i_batch, batch in enumerate(x)
NextBatch ==
    /\ pc = "batch"
    /\ IF Len(x) > 0
       THEN /\ batch' = Head(x)
            /\ x' = Tail(x)
            /\ i_batch' = i_batch + 1
            /\ i' = 0
            /\ pc' = "level"
       ELSE /\ pc' = "done"
            /\ UNCHANGED <<batch, x, i_batch, i>>
    /\ UNCHANGED <<fn, sigmas, T, n_images, batch_size, t, alpha_i, idx_sigmas,
                   x_processed, n_processed_images, idx_image, k_save, files,
                   snaps, calls, batch_size_arg, sched, loss, grid>>

\* where a driver goes once the levels of the current tensor are exhausted
AfterLevels(f) == IF f = "sample_and_save" THEN "done"
                  ELSE IF f = "sample_many" THEN "collect" ELSE "save"

\* for i, sigma_i in enumerate(sigmas): alpha_i, idx_sigmas
Level ==
    /\ pc = "level"
    /\ IF i < Len(sigmas)
       THEN /\ alpha_i' = Alpha(sigmas, i)
            /\ idx_sigmas' = Ones(IdxLen(fn, n_images, batch_size, batch), i)
            /\ t' = 0
            /\ pc' = "step"
            /\ UNCHANGED k_save
       ELSE /\ pc' = AfterLevels(fn)
            /\ k_save' = 0
            /\ UNCHANGED <<alpha_i, idx_sigmas, t>>
    /\ UNCHANGED <<fn, sigmas, T, n_images, batch_size, x, batch, i_batch, i,
                   x_processed, n_processed_images, idx_image, files, snaps,
                   calls, batch_size_arg, sched, loss, grid>>

\* variant: if t % 10 == 0
MutSnapshotDueBefore(f, step) == f = "sample_and_save" /\ step % SnapshotEvery = 0
\* if (t + 1) % 10 == 0 (sample_and_save only)
SnapshotDue(f, step) == f = "sample_and_save" /\ (step + 1) % SnapshotEvery = 0

\* variant: fresh noise at the first step of every level
MutStepInputFresh(xs, lvl, step) ==
    IF step = 0 THEN [k \in 1..Len(xs) |-> [xs[k] EXCEPT !.v = PixelLo, !.trace = <<>>]]
    ELSE xs
\* the tensor the next sample_one_step call reads: the loop variable itself
StepInput(xs, lvl, step) == xs

\* one iteration of for t in range(T)
Step ==
    /\ pc = "step"
    /\ t < T
    /\ Len(idx_sigmas) = Len(batch)     \* the model rejects any other shape
    /\ \E d \in Draws(fn, batch) :
          LET xin == StepInput(batch, i, t)
              out == SampleOneStep(xin, idx_sigmas, alpha_i, d)
          IN  /\ batch' = out
              /\ calls' = Append(calls,
                     [i_batch |-> i_batch, idx_sigmas |-> idx_sigmas,
                      alpha |-> alpha_i,
                      ids |-> [k \in 1..Len(xin) |-> xin[k].id],
                      n_in |-> [k \in 1..Len(xin) |-> Len(xin[k].trace)]])
              /\ snaps' = IF SnapshotDue(fn, t)
                          THEN Append(snaps,
                                 [name |-> <<i + 1, t + 1>>,
                                  shown |-> [k \in 1..Len(out) |-> Len(out[k].trace)]])
                          ELSE snaps
    /\ IF t + 1 < T
       THEN t' = t + 1 /\ UNCHANGED <<i, pc>>
       ELSE t' = t + 1 /\ i' = i + 1 /\ pc' = "level"
    /\ UNCHANGED <<fn, sigmas, T, n_images, batch_size, x, i_batch, alpha_i,
                   idx_sigmas, x_processed, n_processed_images, idx_image,
                   k_save, files, batch_size_arg, sched, loss, grid>>

\* sample_many: x_processed = tf.concat([x_processed, batch], axis=0)
Collect ==
    /\ pc = "collect"
    /\ x_processed' = x_processed \o batch
    /\ n_processed_images' = n_processed_images + batch_size
    /\ pc' = "batch"
    /\ UNCHANGED <<fn, sigmas, T, n_images, batch_size, x, batch, i_batch, i, t,
                   alpha_i, idx_sigmas, idx_image, k_save, files, snaps, calls,
                   batch_size_arg, sched, loss, grid>>

\* sample_many_and_save: for image in batch: im.save(f'{idx_image}.png')
SaveImage ==
    /\ pc = "save"
    /\ IF k_save < Len(batch)
       THEN /\ files' = Append(files,
                   [name |-> idx_image,
                    id |-> batch[k_save + 1].id,
                    pixel |-> PreprocessImageToSave(batch[k_save + 1].v),
                    updates |-> Len(batch[k_save + 1].trace)])
            /\ idx_image' = idx_image + 1
            /\ k_save' = k_save + 1
            /\ UNCHANGED pc
       ELSE /\ pc' = "batch"
            /\ UNCHANGED <<files, idx_image, k_save>>
    /\ UNCHANGED <<fn, sigmas, T, n_images, batch_size, x, batch, i_batch, i, t,
                   alpha_i, idx_sigmas, x_processed, n_processed_images, snaps,
                   calls, batch_size_arg, sched, loss, grid>>

IdleOthers == sched = "idle" /\ loss = "idle" /\ grid = "idle"

Init == InitSampler /\ IdleOthers

Next == Begin \/ NextBatch \/ Level \/ Step \/ Collect \/ SaveImage

Spec == Init /\ [][Next]_vars

IdleSampler ==
    /\ fn = "none" /\ sigmas = <<>> /\ T = 0 /\ n_images = 0 /\ batch_size = 0
    /\ batch_size_arg = 0 /\ pc = "idle" /\ x = <<>> /\ batch = <<>>
    /\ i_batch = -1 /\ i = 0 /\ t = 0 /\ alpha_i = eps /\ idx_sigmas = <<>>
    /\ x_processed = <<>> /\ n_processed_images = 0 /\ idx_image = 0
    /\ k_save = 0 /\ files = <<>> /\ snaps = <<>> /\ calls = <<>>

(* --------------------------- noise schedule ---------------------------- *)
\* sigma_high and sigma_low are powers of two, 2^a > 2^b, so that their
\* logarithms (taken to base 2) are exact; a linspace point is a rational
\* p/q, and its exponential 2^(p/q) is kept as the q-th root of 2^p.
RECURSIVE Exp2(_)
Exp2(k) == IF k = 0 THEN <<1, 1>>
           ELSE IF k > 0 THEN RMul(<<2, 1>>, Exp2(k - 1))
           ELSE RMul(<<1, 2>>, Exp2(k + 1))
RECURSIVE Log2(_)
Log2(r) == IF r[1] = r[2] THEN 0
           ELSE IF r[1] > r[2] THEN Log2(<<r[1], 2 * r[2]>>) + 1
           ELSE Log2(<<2 * r[1], r[2]>>) - 1
RECURSIVE RPow(_, _)
RPow(r, q) == IF q = 0 THEN <<1, 1>> ELSE RMul(r, RPow(r, q - 1))

\* variant: linspace without its end point
MutLinspaceNoEndpoint(start, stop, num) ==
    [k \in 1..num |-> <<start * num + (k - 1) * (stop - start), num>>]
\* tf.linspace(start, stop, num): num points from start to stop inclusive,
\* the single point start when num = 1
Linspace(start, stop, num) ==
    IF num = 1 THEN <<RInt(start)>>
    ELSE [k \in 1..num |-> <<start * (num - 1) + (k - 1) * (stop - start), num - 1>>]

\* tf.math.exp of a rational point
Exp(r) == [pow |-> Exp2(r[1]), root |-> r[2]]

\* comparisons of the roots kept by Exp
SurdIs(s, r) == REq(s.pow, RPow(r, s.root))
SurdGt(s1, s2) == s1.root = s2.root /\ RLt(s2.pow, s1.pow)

InitSchedule ==
    \E a, b \in (-MaxExp)..MaxExp : \E n \in 1..MaxNumL :
        /\ a > b
        /\ sched = [pc |-> "args", sigma_high |-> Exp2(a), sigma_low |-> Exp2(b),
                    num_L |-> n, log_high |-> 0, log_low |-> 0,
                    points |-> <<>>, sigma_levels |-> <<>>]

\* tf.math.log(sigma_high), tf.math.log(sigma_low)
TakeLogs ==
    /\ sched.pc = "args"
    /\ sched' = [sched EXCEPT !.pc = "logs",
                              !.log_high = Log2(sched.sigma_high),
                              !.log_low = Log2(sched.sigma_low)]
    /\ UNCHANGED <<samplerVars, loss, grid>>

\* tf.linspace(log sigma_high, log sigma_low, num_L)
Space ==
    /\ sched.pc = "logs"
    /\ sched' = [sched EXCEPT !.pc = "points",
                              !.points = Linspace(sched.log_high, sched.log_low,
                                                  sched.num_L)]
    /\ UNCHANGED <<samplerVars, loss, grid>>

\* sigma_levels = tf.math.exp(...)
Exponentiate ==
    /\ sched.pc = "points"
    /\ sched' = [sched EXCEPT !.pc = "done",
                              !.sigma_levels = [k \in 1..Len(sched.points) |->
                                                   Exp(sched.points[k])]]
    /\ UNCHANGED <<samplerVars, loss, grid>>

NextSchedule == TakeLogs \/ Space \/ Exponentiate
ScheduleOnly == InitSchedule /\ IdleSampler /\ loss = "idle" /\ grid = "idle"
SpecSchedule == ScheduleOnly /\ [][NextSchedule]_vars

(* -------------------------------- losses ------------------------------- *)
RECURSIVE GCD(_, _)
GCD(a, b) == IF b = 0 THEN a ELSE GCD(b, a % b)
Abs(n) == IF n < 0 THEN -n ELSE n
\* a rational in lowest terms
RNorm(r) == LET g == GCD(Abs(r[1]), r[2])
            IN  <<r[1] \div g, r[2] \div g>>
RECURSIVE RSum(_)
RSum(q) == IF Len(q) = 0 THEN <<0, 1>>
           ELSE RNorm(RAdd(q[1], RSum(Tail(q))))
\* flattening of a sequence of sequences
RECURSIVE Flatten(_)
Flatten(q) == IF Len(q) = 0 THEN <<>> ELSE q[1] \o Flatten(Tail(q))

\* a norm is the square root of a rational, kept as that rational
Sqrt(q) == [sq |-> q]
SquareOfNorm(nrm) == nrm.sq

\* variant: sigmas * score - (x_perturbed - x) / sigmas
MutResidualSign(l, b, h, w, c) ==
    RSub(RMul(RInt(l.sigmas[b]), RInt(l.score[b][h][w][c])),
         RDiv(RSub(RInt(l.x_perturbed[b][h][w][c]), RInt(l.x[b][h][w][c])),
              RInt(l.sigmas[b])))
\* element (b, h, w, c) of sigmas * score + (x_perturbed - x) / sigmas, with
\* sigmas of shape (batch, 1, 1, 1)
Residual(l, b, h, w, c) ==
    RAdd(RMul(RInt(l.sigmas[b]), RInt(l.score[b][h][w][c])),
         RDiv(RSub(RInt(l.x_perturbed[b][h][w][c]), RInt(l.x[b][h][w][c])),
              RInt(l.sigmas[b])))

\* tf.norm(., axis=(1, 2)): for each (b, c) the Frobenius norm over (H, W)
NormHW(l, b, c) ==
    Sqrt(RSum(Flatten([h \in 1..l.shape[2] |->
                 [w \in 1..l.shape[3] |-> RSquare(Residual(l, b, h, w, c))]])))
\* tf.norm(., axis=-1): for each b the norm over the channels
NormC(l, b) ==
    Sqrt(RSum([c \in 1..l.shape[4] |-> SquareOfNorm(NormHW(l, b, c))]))
\* tf.reduce_mean over the batch
ReduceMean(q) == RNorm(RDiv(RSum(q), RInt(Len(q))))

\* loss_per_batch
LossPerBatch(l) ==
    LET l_batch == [b \in 1..l.shape[1] |-> SquareOfNorm(NormC(l, b))]
    IN  RNorm(RDiv(RMul(<<1, 2>>, ReduceMean(l_batch)), RInt(l.num_L)))

\* loss_per_batch_alternative
AltTarget(l, b, h, w, c) ==
    RDiv(RSub(RInt(l.x_perturbed[b][h][w][c]), RInt(l.x[b][h][w][c])),
         RSquare(RInt(l.sigmas[b])))
AltSum(l, b) ==
    RSum(Flatten(Flatten(
        [h \in 1..l.shape[2] |->
            [w \in 1..l.shape[3] |->
                [c \in 1..l.shape[4] |->
                    RSquare(RAdd(RInt(l.score[b][h][w][c]),
                                 AltTarget(l, b, h, w, c)))]]])))
\* variant: without the factor tf.square(sigmas)
MutAltUnweighted(l) ==
    ReduceMean([b \in 1..l.shape[1] |-> RMul(<<1, 2>>, AltSum(l, b))])
LossPerBatchAlternative(l) ==
    ReduceMean([b \in 1..l.shape[1] |->
                   RMul(RMul(<<1, 2>>, AltSum(l, b)), RSquare(RInt(l.sigmas[b])))])

Tensors(shape, S) ==
    [1..shape[1] -> [1..shape[2] -> [1..shape[3] -> [1..shape[4] -> S]]]]

InitLoss ==
    \E shape \in LossShapes : \E n \in 1..MaxLossNumL :
    \E sc \in Tensors(shape, ScoreValues) :
    \E xp \in Tensors(shape, ImageValues) : \E xc \in Tensors(shape, ImageValues) :
    \E sg \in [1..shape[1] -> LossSigmas] :
        loss = [pc |-> "args", shape |-> shape, num_L |-> n, score |-> sc,
                x_perturbed |-> xp, x |-> xc, sigmas |-> sg,
                loss_per_batch |-> <<0, 1>>, loss_per_batch_alternative |-> <<0, 1>>]

\* both objectives evaluated on the same batch
Evaluate ==
    /\ loss.pc = "args"
    /\ loss' = [loss EXCEPT !.pc = "done",
                            !.loss_per_batch = LossPerBatch(loss),
                            !.loss_per_batch_alternative = LossPerBatchAlternative(loss)]
    /\ UNCHANGED <<samplerVars, sched, grid>>

NextLoss == Evaluate
LossOnly == InitLoss /\ IdleSampler /\ sched = "idle" /\ grid = "idle"
SpecLoss == LossOnly /\ [][NextLoss]_vars

(* ------------------------------ save_as_grid --------------------------- *)
\* np.floor(np.sqrt(n)).astype(int)
FloorSqrt(n) == CHOOSE r \in 0..n : r * r <= n /\ (r + 1) * (r + 1) > n

InitGrid ==
    \E n \in 1..MaxGridImages : \E h, w \in 1..MaxSide : \E sp \in 0..MaxSpacing :
        grid = [pc |-> "args", n_images |-> n, height |-> h, width |-> w,
                spacing |-> sp, rows |-> 0, cols |-> 0,
                canvas |-> <<0, 0>>, i |-> 0, pasted |-> <<>>, saved |-> FALSE]

\* grid dimensions and Image.new(mode, (grid_rows, grid_cols))
GridSetup ==
    /\ grid.pc = "args"
    /\ LET rows == FloorSqrt(grid.n_images)
           cols == grid.n_images \div rows
           grid_cols == rows * grid.height + (rows + 1) * grid.spacing
           grid_rows == cols * grid.width + (cols + 1) * grid.spacing
       IN  grid' = [grid EXCEPT !.pc = "paste", !.rows = rows, !.cols = cols,
                                !.canvas = <<grid_rows, grid_cols>>, !.i = 0]
    /\ UNCHANGED <<samplerVars, sched, loss>>

\* for i in range(n_images): im.paste(image i, (row_start, col_start));
\* after the loop im.save.  A pasted image of shape (height, width) covers
\* width columns from row_start and height lines from col_start.
Paste ==
    /\ grid.pc = "paste"
    /\ IF grid.i < grid.n_images
       THEN LET row == grid.i \div grid.rows
                col == grid.i % grid.rows
                row_start == row * grid.height + (1 + row) * grid.spacing
                col_start == col * grid.width + (1 + col) * grid.spacing
            IN  grid' = [grid EXCEPT
                            !.pasted = Append(@, [image |-> grid.i,
                                                  left |-> row_start,
                                                  upper |-> col_start,
                                                  right |-> row_start + grid.width,
                                                  lower |-> col_start + grid.height]),
                            !.i = @ + 1]
       ELSE grid' = [grid EXCEPT !.pc = "done", !.saved = TRUE]
    /\ UNCHANGED <<samplerVars, sched, loss>>

NextGrid == GridSetup \/ Paste
GridOnly == InitGrid /\ IdleSampler /\ sched = "idle" /\ loss = "idle"
SpecGrid == GridOnly /\ [][NextGrid]_vars

(* ------------------------- claims: the sampler ------------------------- *)
NumLevels == Len(sigmas)
CallsPerBatch == NumLevels * T
\* number of the call within its tensor's sampling run, from 1
CallPos(c) == IF fn = "sample_and_save" THEN c
              ELSE c - calls[c].i_batch * CallsPerBatch
Finished == pc = "done"

\* C1: per tensor sample_one_step is called exactly L*T times, level after
\* level in schedule order with T consecutive calls each, idx_sigmas being the
\* constant vector of the level, and every call reads the output of the call
\* before it (the first one the initial noise): its input carries exactly the
\* updates of all calls made before it on that tensor.
C1_CallSequence ==
    /\ \A c \in 1..Len(calls) :
          LET p == CallPos(c)
          IN  /\ p \in 1..CallsPerBatch
              /\ calls[c].idx_sigmas = Ones(Len(calls[c].ids), (p - 1) \div T)
              /\ \A k \in 1..Len(calls[c].ids) : calls[c].n_in[k] = p - 1
              /\ (p > 1) => /\ calls[c - 1].ids = calls[c].ids
                            /\ calls[c - 1].i_batch = calls[c].i_batch
    /\ (pc \in {"collect", "save"}) => Len(calls) = (i_batch + 1) * CallsPerBatch
    /\ (Finished /\ fn = "sample_and_save") => Len(calls) = CallsPerBatch
    /\ (Finished /\ fn # "sample_and_save") => Len(calls) = (i_batch + 1) * CallsPerBatch

C1_Witness ==
    /\ Finished /\ fn = "sample_and_save"
    /\ NumLevels = 2 /\ T = 3 /\ Len(calls) = 6
    /\ calls[4].idx_sigmas = <<1>> /\ calls[4].n_in = <<3>>

StrictlyDecreasing(s) == \A k \in 1..(Len(s) - 1) : s[k] > s[k + 1]
CallLevel(c) == calls[c].idx_sigmas[1]
\* C2: every call at level i gets alpha_i = eps * (sigma_i / sigma_last)^2;
\* at the last level that is eps, and for a strictly decreasing schedule
\* alpha decreases strictly from level to level, so eps is its minimum.
C2_StepSize ==
    \A c \in 1..Len(calls) :
        LET lvl == CallLevel(c)
            a == calls[c].alpha
        IN  /\ a[2] > 0
            /\ a[1] * EpsDen * sigmas[NumLevels] * sigmas[NumLevels]
                 = EpsNum * sigmas[lvl + 1] * sigmas[lvl + 1] * a[2]
            /\ (lvl = NumLevels - 1) => a[1] * EpsDen = EpsNum * a[2]
            /\ StrictlyDecreasing(sigmas) =>
                  /\ a[1] * EpsDen >= EpsNum * a[2]
                  /\ \A c2 \in 1..Len(calls) :
                        CallLevel(c2) > lvl =>
                            calls[c2].alpha[1] * a[2] < a[1] * calls[c2].alpha[2]

C2_Witness ==
    /\ Finished /\ fn = "sample_many_and_save"
    /\ sigmas = <<2, 1>> /\ T = 2
    /\ calls[1].alpha[1] * EpsDen = 4 * EpsNum * calls[1].alpha[2]
    /\ calls[Len(calls)].alpha[1] * EpsDen = EpsNum * calls[Len(calls)].alpha[2]

SingleBatchTrace ==
    [k \in 1..CallsPerBatch |->
        [level |-> (k - 1) \div T,
         alpha |-> <<EpsNum * sigmas[(k - 1) \div T + 1] * sigmas[(k - 1) \div T + 1],
                     EpsDen * sigmas[NumLevels] * sigmas[NumLevels]>>]]
\* C3: sample_many cuts the n_images initial samples into consecutive
\* sub-batches of at most min(batch_size, n_images) images, samples each with
\* an idx_sigmas vector as long as the sub-batch, and returns all n_images
\* images in their original order, each with the trace of L*T updates that a
\* single batch would give it.
C3_SubBatches ==
    fn = "sample_many" =>
        /\ (pc # "start") =>
              /\ batch_size = Min(batch_size_arg, n_images)
              /\ Len(batch) <= batch_size
              /\ \A b \in 1..Len(x) : Len(x[b]) \in 1..batch_size
        /\ (pc \in {"level", "step", "collect"}) =>
              /\ Len(batch) >= 1
              /\ \A k \in 1..Len(batch) : batch[k].id = i_batch * batch_size + k - 1
        /\ (pc = "step") => Len(idx_sigmas) = Len(batch)
        /\ \A k \in 1..Len(x_processed) :
              /\ x_processed[k].id = k - 1
              /\ x_processed[k].trace = SingleBatchTrace
        /\ Finished => Len(x_processed) = n_images

C3_Witness ==
    /\ Finished /\ fn = "sample_many"
    /\ n_images = 3 /\ batch_size_arg = 2 /\ i_batch = 1
    /\ Len(x_processed) = 3 /\ NumLevels = 2 /\ T = 2
    /\ \E c \in 1..Len(calls) : Len(calls[c].idx_sigmas) = 1

InUnitRange(xs) == \A k \in 1..Len(xs) : xs[k].v >= PixelLo /\ xs[k].v <= PixelHi
JustSnapshotted ==
    /\ Len(snaps) > 0
    /\ Len(batch) > 0
    /\ snaps[Len(snaps)].shown[1] = Len(batch[1].trace)
\* C7: with n_images = 1 every tensor sample_and_save hands to save_as_grid,
\* and the tensor it returns, has all values within [0, 1].
C7_Clipped ==
    (fn = "sample_and_save" /\ n_images = 1) =>
        /\ JustSnapshotted => InUnitRange(batch)
        /\ Finished => InUnitRange(batch)

SnapsPerLevel == T \div SnapshotEvery
\* C8: sample_and_save writes a grid after the inner steps 10, 20, ...,
\* 10 * floor(T / 10) of every level and after no other step, L * floor(T / 10)
\* grids in all; a grid shows the tensor after that step's update, and no two
\* grids share a file name.
C8_Snapshots ==
    fn = "sample_and_save" =>
        /\ Len(snaps) = (Len(calls) \div T) * SnapsPerLevel
                           + ((Len(calls) % T) \div SnapshotEvery)
        /\ \A j \in 1..Len(snaps) :
              /\ snaps[j].name = <<(j - 1) \div SnapsPerLevel + 1,
                                   SnapshotEvery * (((j - 1) % SnapsPerLevel) + 1)>>
              /\ \A k \in 1..Len(snaps[j].shown) :
                    snaps[j].shown[k] = (snaps[j].name[1] - 1) * T + snaps[j].name[2]
        /\ \A j1, j2 \in 1..Len(snaps) : j1 # j2 => snaps[j1].name # snaps[j2].name
        /\ Finished => Len(snaps) = NumLevels * SnapsPerLevel

C8_Witness ==
    /\ Finished /\ fn = "sample_and_save"
    /\ NumLevels = 2 /\ T = 21 /\ Len(snaps) = 4
    /\ snaps[3].name = <<2, 10>> /\ snaps[4].name = <<2, 20>>

(* ----------------------- claims: noise schedule ------------------------ *)
ScheduleBuilt == sched.pc = "done"
ScheduleDecreasing ==
    \A k \in 1..(Len(sched.sigma_levels) - 1) :
        SurdGt(sched.sigma_levels[k], sched.sigma_levels[k + 1])

\* C4 as stated: for every num_L >= 1 the schedule has num_L elements, is
\* strictly decreasing, starts at sigma_high and ends at sigma_low.
C4_Original ==
    ScheduleBuilt =>
        /\ Len(sched.sigma_levels) = sched.num_L
        /\ ScheduleDecreasing
        /\ SurdIs(sched.sigma_levels[1], sched.sigma_high)
        /\ SurdIs(sched.sigma_levels[sched.num_L], sched.sigma_low)

\* C4 amended: the schedule has num_L elements, is strictly decreasing and
\* starts at sigma_high; it ends at sigma_low when num_L >= 2, and for
\* num_L = 1 its only element is sigma_high.
C4_Schedule ==
    ScheduleBuilt =>
        /\ Len(sched.sigma_levels) = sched.num_L
        /\ ScheduleDecreasing
        /\ SurdIs(sched.sigma_levels[1], sched.sigma_high)
        /\ (sched.num_L >= 2) =>
               SurdIs(sched.sigma_levels[sched.num_L], sched.sigma_low)
        /\ (sched.num_L = 1) =>
               /\ SurdIs(sched.sigma_levels[1], sched.sigma_high)
               /\ ~SurdIs(sched.sigma_levels[1], sched.sigma_low)

C4_Witness ==
    /\ ScheduleBuilt
    /\ sched.num_L = 3 /\ sched.sigma_high = <<2, 1>> /\ sched.sigma_low = <<1, 4>>
    /\ Len(sched.sigma_levels) = 3

(* --------------------------- claims: the grid -------------------------- *)
InsideCanvas(b) ==
    /\ b.left >= 0 /\ b.upper >= 0
    /\ b.right <= grid.canvas[1] /\ b.lower <= grid.canvas[2]
Overlap(b1, b2) ==
    /\ b1.left < b2.right /\ b2.left < b1.right
    /\ b1.upper < b2.lower /\ b2.upper < b1.lower

\* C9: for square images save_as_grid pastes every image at a cell of its
\* own that lies entirely inside the canvas, whatever n_images is.
C9_GridPlacement ==
    grid.height = grid.width =>
        /\ \A k \in 1..Len(grid.pasted) : InsideCanvas(grid.pasted[k])
        /\ \A k1, k2 \in 1..Len(grid.pasted) :
              k1 # k2 => ~Overlap(grid.pasted[k1], grid.pasted[k2])

(* -------------------------- claims: the losses ------------------------- *)
LossDone == loss.pc = "done"
Elements(l) == {e \in (1..l.shape[1]) \X (1..l.shape[2]) \X (1..l.shape[3])
                        \X (1..l.shape[4]) : TRUE}
\* score = (x - x_perturbed) / sigma^2 at element e
GroundTruthAt(l, e) ==
    l.score[e[1]][e[2]][e[3]][e[4]] * l.sigmas[e[1]] * l.sigmas[e[1]]
        = l.x[e[1]][e[2]][e[3]][e[4]] - l.x_perturbed[e[1]][e[2]][e[3]][e[4]]

\* C5: loss_per_batch is never negative, and it is 0 exactly when
\* score = (x - x_perturbed) / sigma^2 at every element of every example.
C5_LossZero ==
    LossDone =>
        /\ loss.loss_per_batch[2] > 0
        /\ loss.loss_per_batch[1] >= 0
        /\ (loss.loss_per_batch[1] = 0) <=>
               (\A e \in Elements(loss) : GroundTruthAt(loss, e))

C5_Witness ==
    /\ LossDone
    /\ loss.shape = <<1, 1, 2, 2>>
    /\ loss.sigmas = <<1>>
    /\ loss.loss_per_batch[1] = 0
    /\ \E e \in Elements(loss) : loss.score[e[1]][e[2]][e[3]][e[4]] = 1

RECURSIVE SumOver(_, _)
SumOver(S, l) ==
    IF S = {} THEN 0
    ELSE LET e == CHOOSE e \in S : TRUE
             r == l.score[e[1]][e[2]][e[3]][e[4]] * l.sigmas[e[1]] * l.sigmas[e[1]]
                    + l.x_perturbed[e[1]][e[2]][e[3]][e[4]]
                    - l.x[e[1]][e[2]][e[3]][e[4]]
             \* squared residual times 36 / sigma^2, an integer for sigma <= 3
             w == 36 \div (l.sigmas[e[1]] * l.sigmas[e[1]])
         IN  r * r * w + SumOver(S \ {e}, l)
\* C10: on the same inputs loss_per_batch_alternative is num_L times
\* loss_per_batch, both being 0.5 * mean over the batch of the sum over
\* (H, W, C) of the squared residual.
C10_Scaling ==
    LossDone =>
        /\ REq(loss.loss_per_batch_alternative,
               RMul(RInt(loss.num_L), loss.loss_per_batch))
        \* alt = (1/2) * (1/batch) * sum of squared residuals
        /\ loss.loss_per_batch_alternative[1] * 2 * loss.shape[1] * 36
             = SumOver(Elements(loss), loss) * loss.loss_per_batch_alternative[2]

C10_Witness ==
    /\ LossDone
    /\ loss.shape = <<2, 1, 2, 1>>
    /\ loss.sigmas = <<1, 2>>
    /\ loss.num_L = 2
    /\ loss.loss_per_batch[1] > 0
    /\ REq(loss.loss_per_batch_alternative, RMul(<<2, 1>>, loss.loss_per_batch))

====
